---- MODULE Spec2Model ----
(***************************************************************************)
(* Model of the momentum application: the cleaning pass                    *)
(* (clean_and_save_prices), the calendar index, the momentum ranker        *)
(* (compute_top5_momentum_for_date) and the query loop of cli.main.        *)
(*                                                                         *)
(* Three specifications share the module:                                  *)
(*   SpecClean  the cleaning pass, one raw line per step, then the write   *)
(*   SpecRank   the ranker as a pure function over fixture tables          *)
(*   SpecCli    the query loop with its result cache                       *)
(***************************************************************************)
EXTENDS Integers, Sequences, FiniteSets, TLC

(***************************************************************************)
(* Python floats.  A float is a record: kind "fin" is the rational n/d     *)
(* (d > 0), kind "inf" is +inf (n = 1) or -inf (n = -1), kind "nan" is     *)
(* NaN.  The prices and ratios of the model are small, so the rational is  *)
(* the exact value of the double and no rounding step is needed.           *)
(***************************************************************************)
Fin(n) == [k |-> "fin", n |-> n, d |-> 1]

RECURSIVE Gcd(_, _)
Gcd(a, b) == IF b = 0 THEN a ELSE Gcd(b, a % b)

Abs(n) == IF n < 0 THEN -n ELSE n

\* n/d in lowest terms (d > 0).
Rat(n, d) ==
    LET g == Gcd(Abs(n), d)
    IN [k |-> "fin", n |-> n \div g, d |-> d \div g]

NaN == [k |-> "nan", n |-> 0, d |-> 1]

PosInf == [k |-> "inf", n |-> 1, d |-> 1]

NegInf == [k |-> "inf", n |-> -1, d |-> 1]

\* x < y on floats: every comparison with NaN is false.
FloatLt(x, y) ==
    IF x.k = "nan" \/ y.k = "nan" THEN FALSE
    ELSE IF x.k = "inf" THEN x.n < 0 /\ ~(y.k = "inf" /\ y.n < 0)
    ELSE IF y.k = "inf" THEN y.n > 0
    ELSE x.n * y.d < y.n * x.d

\* x == y on floats: NaN equals nothing, itself included.
FloatEq(x, y) ==
    IF x.k = "nan" \/ y.k = "nan" THEN FALSE
    ELSE IF x.k = "inf" \/ y.k = "inf" THEN x.k = y.k /\ x.n = y.n
    ELSE x.n * y.d = y.n * x.d

\* x <= 0
FloatLeZero(x) ==
    FloatLt(x, Fin(0)) \/ FloatEq(x, Fin(0))

\* -x
FloatNeg(x) ==
    IF x.k = "nan" THEN NaN ELSE [x EXCEPT !.n = -x.n]

\* x / y: a zero divisor raises ZeroDivisionError.
ZeroDivisionError == [k |-> "ZeroDivisionError", n |-> 0, d |-> 1]

FloatDiv(x, y) ==
    IF y.k = "fin" /\ y.n = 0 THEN ZeroDivisionError
    ELSE IF x.k = "nan" \/ y.k = "nan" THEN NaN
    ELSE IF y.k = "inf" THEN (IF x.k = "inf" THEN NaN ELSE Fin(0))
    ELSE IF x.k = "inf" THEN (IF y.n > 0 THEN x ELSE FloatNeg(x))
    ELSE IF y.n > 0 THEN Rat(x.n * y.d, x.d * y.n)
    ELSE Rat(-(x.n * y.d), x.d * (-y.n))

\* x - 1
FloatMinusOne(x) ==
    IF x.k = "fin" THEN Rat(x.n - x.d, x.d) ELSE x

(***************************************************************************)
(* float(price_str): the text of a price field to a float, or ValueError.  *)
(* PriceTokens are the price fields the raw lines of the model carry       *)
(* (already stripped).                                                     *)
(***************************************************************************)
ValueError == [k |-> "ValueError", n |-> 0, d |-> 1]

PriceTokens == {"1", "2", "1.0", "", "abc", "0", "-1", "nan", "inf", "-inf"}

ParseFloat(s) ==
    CASE s = "1"    -> Fin(1)
      [] s = "1.0"  -> Fin(1)
      [] s = "2"    -> Fin(2)
      [] s = "2.0"  -> Fin(2)
      [] s = "0"    -> Fin(0)
      [] s = "-1"   -> Fin(-1)
      [] s = "nan"  -> NaN
      [] s = "inf"  -> PosInf
      [] s = "-inf" -> NegInf
      [] OTHER      -> ValueError

\* str(price) as csv.writer writes a float; only floats that passed the
\* cleaning are written.
FormatFloat(x) ==
    CASE x.k = "nan" -> "nan"
      [] x.k = "inf" -> (IF x.n > 0 THEN "inf" ELSE "-inf")
      [] x = Fin(1)  -> "1.0"
      [] x = Fin(2)  -> "2.0"
      [] x = Fin(0)  -> "0.0"
      [] x = Fin(-1) -> "-1.0"

\* str.strip() and str.lower() on the field texts of the model (lower() is
\* only ever compared with the header names).
Strip(s) ==
    CASE s = " Date "   -> "Date"
      [] s = " TICKER " -> "TICKER"
      [] s = " d1 "     -> "d1"
      [] s = "  "       -> ""
      [] OTHER          -> s

Lower(s) ==
    CASE s = "Date"   -> "date"
      [] s = "TICKER" -> "ticker"
      [] OTHER        -> s

(***************************************************************************)
(* The cleaning pass.  A raw line is the sequence of its comma-separated   *)
(* fields, as line.split(",") yields them; a blank line is one field that  *)
(* strips to the empty text.                                               *)
(***************************************************************************)
MaxLines == 3

DataLines ==
    {<<"d1", t, p>> : t \in {"A", "B"}, p \in PriceTokens}
      \cup {<<"d2", "A", "1">>, <<" d1 ", "A", "2">>,
            <<"d1", "A", "1", "x">>, <<"date", "A", "1">>}

HeaderLines == {<<"date", "ticker", "close_price">>, <<" Date ", " TICKER ", "1">>}

MalformedLines == {<<"junk">>, <<"d1", "A">>, <<"date", "ticker">>}

BlankLines == {<<"">>, <<"  ">>}

RawLines == DataLines \cup HeaderLines \cup MalformedLines \cup BlankLines

VARIABLES
    pc,                      \* position of the program
    raw,                     \* the lines of PRICES_RAW read so far
    rows_read, empty_or_invalid_price, duplicate_keys, last_seen, log,
    clean_file,              \* the data rows written to PRICES_CLEAN
    rows_written,
    rows,                    \* the loaded table: <<date, ticker, price>>
    dates, date_to_index,    \* the calendar and its index
    target_date, window,     \* the arguments of the last ranker call
    top5,                    \* what the last ranker call returned
    results,                 \* the result cache of the session
    printed                  \* what the query loop has printed, query by query

cleanVars == <<raw, rows_read, empty_or_invalid_price, duplicate_keys,
               last_seen, log, clean_file, rows_written>>

tableVars == <<rows, dates, date_to_index>>

rankVars == <<target_date, window, top5>>

cliVars == <<results, printed>>

vars == <<pc, cleanVars, tableVars, rankVars, cliVars>>

\* line = line.strip(); if not line
IsBlank(line) == Len(line) = 1 /\ Strip(line[1]) = ""

\* len(parts) < 3
IsMalformed(line) == Len(line) < 3

\* A header test that compares the case as well.
IsHeaderCaseSensitive(line) ==
    /\ Strip(line[1]) = "date"
    /\ Strip(line[2]) = "ticker"

\* date_str.lower() == "date" and ticker.lower() == "ticker"
IsHeader(line) ==
    /\ Lower(Strip(line[1])) = "date"
    /\ Lower(Strip(line[2])) = "ticker"

\* key = (date_str, ticker)
KeyOf(line) == <<Strip(line[1]), Strip(line[2])>>

\* price = float(price_str)
PriceOf(line) == ParseFloat(Strip(line[3]))

LogMsg(m, a, b) == [m |-> m, a |-> a, b |-> b]

\* The order of str on the stripped texts of the first two fields.
StrRank(s) ==
    CASE s = ""       -> 0
      [] s = "A"      -> 1
      [] s = "B"      -> 2
      [] s = "Date"   -> 3
      [] s = "TICKER" -> 4
      [] s = "d1"     -> 5
      [] s = "d2"     -> 6
      [] s = "date"   -> 7
      [] s = "junk"   -> 8
      [] s = "ticker" -> 9

KeyLt(a, b) ==
    \/ StrRank(a[1]) < StrRank(b[1])
    \/ a[1] = b[1] /\ StrRank(a[2]) < StrRank(b[2])

\* sorted(last_seen.keys())
RECURSIVE SortedKeys(_)
SortedKeys(S) ==
    IF S = {} THEN <<>>
    ELSE LET m == CHOOSE x \in S : \A y \in S \ {x} : KeyLt(x, y)
         IN <<m>> \o SortedKeys(S \ {m})

RECURSIVE SumOf(_, _)
SumOf(f, S) ==
    IF S = {} THEN 0
    ELSE LET x == CHOOSE x \in S : TRUE IN f[x] + SumOf(f, S \ {x})

\* The parts of the state a specification does not use.
NoClean ==
    /\ raw = <<>>
    /\ rows_read = 0
    /\ empty_or_invalid_price = 0
    /\ duplicate_keys = <<>>
    /\ last_seen = <<>>
    /\ log = <<>>
    /\ clean_file = <<>>
    /\ rows_written = 0

NoTable ==
    /\ rows = <<>>
    /\ dates = <<>>
    /\ date_to_index = <<>>

NoCall ==
    /\ target_date = 0
    /\ window = 0
    /\ top5 = [kind |-> "none yet", list |-> <<>>]

NoCli ==
    /\ results = <<>>
    /\ printed = <<>>

InitClean ==
    /\ pc = "reading"
    /\ raw = <<>>
    /\ rows_read = 0
    /\ empty_or_invalid_price = 0
    /\ duplicate_keys = <<>>
    /\ last_seen = <<>>
    /\ log = <<>>
    /\ clean_file = <<>>
    /\ rows_written = 0
    /\ NoTable
    /\ NoCall
    /\ NoCli

\* One iteration of the loop over the raw file.
ReadLine(line) ==
    /\ pc = "reading"
    /\ Len(raw) < MaxLines
    /\ raw' = Append(raw, line)
    /\ UNCHANGED <<pc, clean_file, rows_written, tableVars, rankVars, cliVars>>
    /\ IF IsBlank(line)
       THEN UNCHANGED <<rows_read, empty_or_invalid_price, duplicate_keys, last_seen, log>>
       ELSE IF IsMalformed(line)
       THEN /\ empty_or_invalid_price' = empty_or_invalid_price + 1
            /\ log' = Append(log, LogMsg("Skipped malformed line", 0, 0))
            /\ UNCHANGED <<rows_read, duplicate_keys, last_seen>>
       ELSE IF IsHeader(line)
       THEN UNCHANGED <<rows_read, empty_or_invalid_price, duplicate_keys, last_seen, log>>
       ELSE /\ rows_read' = rows_read + 1
            /\ log' = log
            /\ LET price == PriceOf(line)
                   key == KeyOf(line)
               IN IF price = ValueError
                  THEN /\ empty_or_invalid_price' = empty_or_invalid_price + 1
                       /\ UNCHANGED <<duplicate_keys, last_seen>>
                  ELSE IF FloatLeZero(price)
                  THEN /\ empty_or_invalid_price' = empty_or_invalid_price + 1
                       /\ UNCHANGED <<duplicate_keys, last_seen>>
                  ELSE /\ empty_or_invalid_price' = empty_or_invalid_price
                       /\ duplicate_keys' =
                            IF key \in DOMAIN last_seen
                            THEN (key :> (IF key \in DOMAIN duplicate_keys
                                          THEN duplicate_keys[key] ELSE 1) + 1)
                                   @@ duplicate_keys
                            ELSE duplicate_keys
                       /\ last_seen' = (key :> price) @@ last_seen

\* End of the raw file: the counts, the write of PRICES_CLEAN, the log.
FinishClean ==
    /\ pc = "reading"
    /\ pc' = "cleaned"
    /\ LET num_duplicate_pairs == Cardinality(DOMAIN duplicate_keys)
           total_duplicate_occurrences == SumOf(duplicate_keys, DOMAIN duplicate_keys)
           duplicate_rows_dropped == total_duplicate_occurrences - num_duplicate_pairs
           keys == SortedKeys(DOMAIN last_seen)
       IN /\ clean_file' = [i \in 1..Len(keys) |->
                               <<keys[i][1], keys[i][2], FormatFloat(last_seen[keys[i]])>>]
          /\ rows_written' = Cardinality(DOMAIN last_seen)
          /\ log' = log
                \o <<LogMsg("Read", rows_read, 0)>>
                \o (IF empty_or_invalid_price # 0
                    THEN <<LogMsg("Removed", empty_or_invalid_price, 0)>> ELSE <<>>)
                \o (IF duplicate_rows_dropped # 0
                    THEN <<LogMsg("Resolved", num_duplicate_pairs, duplicate_rows_dropped)>>
                    ELSE <<>>)
                \o <<LogMsg("Written", Cardinality(DOMAIN last_seen), 0)>>
    /\ UNCHANGED <<raw, rows_read, empty_or_invalid_price, duplicate_keys, last_seen>>
    /\ UNCHANGED <<tableVars, rankVars, cliVars>>

NextClean ==
    \/ \E line \in RawLines : ReadLine(line)
    \/ FinishClean

SpecClean == InitClean /\ [][NextClean]_vars

(***************************************************************************)
(* The calendar index and the ranker.  Dates and tickers are numbers that  *)
(* stand for the ISO date texts and the ticker names in their str order.   *)
(* A row is <<date, ticker, price>>.                                       *)
(***************************************************************************)
\* The distinct values of field f of the rows, in order of first appearance:
\* the rows that are the first with their value, in row order.
FirstSeen(rs, f) ==
    LET first == {i \in 1..Len(rs) : \A j \in 1..(i - 1) : rs[j][f] # rs[i][f]}
    IN [k \in 1..Cardinality(first) |->
           rs[CHOOSE i \in first : Cardinality({j \in first : j < i}) = k - 1][f]]

get_trading_dates_ordered(rs) == FirstSeen(rs, 1)

\* {d: i for i, d in enumerate(dates)}: 0-based, a later position wins.
build_date_to_index(ds) ==
    [d \in {ds[i] : i \in 1..Len(ds)} |->
        (CHOOSE i \in 1..Len(ds) :
            ds[i] = d /\ \A j \in 1..Len(ds) : ds[j] = d => j <= i) - 1]

\* by_ticker.items(): the tickers in order of first appearance ...
TickerOrder(rs) == FirstSeen(rs, 2)

\* ... and day_prices.get(d) of a ticker: the price of the last row of
\* (d, ticker), or None.
None == [k |-> "None", n |-> 0, d |-> 1]

DayPrice(rs, ticker, d) ==
    LET I == {i \in 1..Len(rs) : rs[i][1] = d /\ rs[i][2] = ticker}
    IN IF I = {} THEN None
       ELSE rs[CHOOSE i \in I : \A j \in I : j <= i][3]

\* A test that turns away only a zero reference price.
QualifiesZeroOnly(p_today, p_20) ==
    p_today # None /\ p_20 # None /\ ~FloatEq(p_20, Fin(0))

\* not (p_today is None or p_20 is None or p_20 <= 0)
Qualifies(p_today, p_20) ==
    p_today # None /\ p_20 # None /\ ~FloatLeZero(p_20)

\* mom = (p_today / p_20) - 1
Momentum(p_today, p_20) == FloatMinusOne(FloatDiv(p_today, p_20))

\* The sort key (-x[1], x[0]) and the < of two keys: tuples compare at the
\* first position where they are not ==.
KeyLess(x, y) ==
    LET a == FloatNeg(x.momentum)
        b == FloatNeg(y.momentum)
    IN IF FloatEq(a, b) THEN x.ticker < y.ticker ELSE FloatLt(a, b)

(***************************************************************************)
(* list.sort for a list shorter than 64: the leading run is found          *)
(* (reversed when strictly descending) and the rest is inserted by binary  *)
(* insertion.  Only < of the keys is used.                                 *)
(***************************************************************************)
RECURSIVE RunEnd(_, _, _)
RunEnd(s, i, descending) ==
    IF i = Len(s) THEN i
    ELSE IF descending
         THEN (IF KeyLess(s[i + 1], s[i]) THEN RunEnd(s, i + 1, descending) ELSE i)
         ELSE (IF KeyLess(s[i + 1], s[i]) THEN i ELSE RunEnd(s, i + 1, descending))

Reverse(s) == [i \in 1..Len(s) |-> s[Len(s) + 1 - i]]

\* The position at which binary insertion puts pivot into s[l..r-1].
RECURSIVE InsertAt(_, _, _, _)
InsertAt(s, pivot, l, r) ==
    IF l >= r THEN l
    ELSE LET p == l + ((r - l) \div 2)
         IN IF KeyLess(pivot, s[p]) THEN InsertAt(s, pivot, l, p)
            ELSE InsertAt(s, pivot, p + 1, r)

RECURSIVE BinarySort(_, _)
BinarySort(s, start) ==
    IF start > Len(s) THEN s
    ELSE LET l == InsertAt(s, s[start], 1, start)
             t == SubSeq(s, 1, l - 1) \o <<s[start]>> \o SubSeq(s, l, start - 1)
                    \o SubSeq(s, start + 1, Len(s))
         IN BinarySort(t, start + 1)

ListSort(s) ==
    IF Len(s) < 2 THEN s
    ELSE LET descending == KeyLess(s[2], s[1])
             n == RunEnd(s, 2, descending)
             t == IF descending
                  THEN Reverse(SubSeq(s, 1, n)) \o SubSeq(s, n + 1, Len(s))
                  ELSE s
         IN BinarySort(t, n + 1)

TopN == 5

\* ds[i] of a Python list: a negative index counts from the end.
PyIndex(ds, i) == IF i < 0 THEN ds[Len(ds) + i + 1] ELSE ds[i + 1]

\* A history test that is one date short.
InsufficientHistoryShort(idx, w) == idx < w - 1

\* if idx < window: return []
InsufficientHistory(idx, w) == idx < w

\* compute_top5_momentum_for_date(rows, target_date, dates, date_to_index, window)
compute_top5_momentum_for_date(rs, target, ds, d2i, w) ==
    IF target \notin DOMAIN d2i THEN [kind |-> "None", list |-> <<>>]
    ELSE LET idx == d2i[target] IN
    IF InsufficientHistory(idx, w) THEN [kind |-> "list", list |-> <<>>]
    ELSE LET date_20_ago == PyIndex(ds, idx - w)
             order == TickerOrder(rs)
             Keep(t) == Qualifies(DayPrice(rs, t, target), DayPrice(rs, t, date_20_ago))
             kept == SelectSeq(order, Keep)
             momentums == [i \in 1..Len(kept) |->
                             [ticker |-> kept[i],
                              momentum |-> Momentum(DayPrice(rs, kept[i], target),
                                                    DayPrice(rs, kept[i], date_20_ago))]]
             sorted == ListSort(momentums)
         IN [kind |-> "list",
             list |-> SubSeq(sorted, 1, IF Len(sorted) < TopN THEN Len(sorted) ELSE TopN)]

(***************************************************************************)
(* The ranker on fixture tables.  A fixture is what the tests build with   *)
(* make_rows: every ticker priced on every date, here at 1.0 but for up to *)
(* two deviations (a row left out or priced differently), sorted by        *)
(* (date, ticker).                                                         *)
(***************************************************************************)
NumTickers == 6

NumDates == 3

MaxWindow == 2

FixtureKeys == (1..NumDates) \X (1..NumTickers)

DevValues == {None, Fin(-1), Fin(0), Fin(2), NaN, PosInf}

NoDev == <<<<0, 0>>, None>>

Deviations == {NoDev} \cup (FixtureKeys \X DevValues)

FixturePrice(key, dev1, dev2) ==
    IF key = dev2[1] THEN dev2[2]
    ELSE IF key = dev1[1] THEN dev1[2]
    ELSE Fin(1)

\* The rows of dates 1..nd and tickers 1..nt, sorted by (date, ticker); a
\* key without a price has no row.
make_rows(nd, nt, dev1, dev2) ==
    LET all == [n \in 1..(nd * nt) |->
                   LET key == <<((n - 1) \div nt) + 1, ((n - 1) % nt) + 1>>
                   IN <<key[1], key[2], FixturePrice(key, dev1, dev2)>>]
    IN SelectSeq(all, LAMBDA r : r[3] # None)

InitRank ==
    /\ pc = "ranking"
    /\ NoClean
    /\ \E dev1, dev2 \in Deviations : rows = make_rows(NumDates, NumTickers, dev1, dev2)
    /\ dates = get_trading_dates_ordered(rows)
    /\ date_to_index = build_date_to_index(dates)
    /\ NoCall
    /\ NoCli

\* The call of the ranker on the table.
Rank(target, w) ==
    /\ pc = "ranking"
    /\ pc' = "ranked"
    /\ target_date' = target
    /\ window' = w
    /\ top5' = compute_top5_momentum_for_date(rows, target, dates, date_to_index, w)
    /\ UNCHANGED <<cleanVars, tableVars, cliVars>>

NextRank == \E target \in 1..(NumDates + 1), w \in 1..MaxWindow : Rank(target, w)

SpecRank == InitRank /\ [][NextRank]_vars

(***************************************************************************)
(* The query loop of cli.main, from the first prompt on.  The table is a   *)
(* cleaned one: two tickers priced on every date of a calendar two dates   *)
(* longer than the window, but for up to two deviations on its first two   *)
(* and last two dates; a cleaned table has no zero or negative price.      *)
(***************************************************************************)
DefaultWindow == 20

NumCliTickers == 2

MaxQueries == 3

NumCliDates == DefaultWindow + 2

CliDevKeys == {1, 2, NumCliDates - 1, NumCliDates} \X (1..NumCliTickers)

CliDeviations == {NoDev} \cup (CliDevKeys \X {None, Fin(2), NaN})

\* What the user may type at the prompt: a date of the fixture or one after it.
QueryDates == {1, NumCliDates - 1, NumCliDates, NumCliDates + 1}

\* round(m, 6)
Round6(x) ==
    IF x.k # "fin" THEN x
    ELSE Rat((2 * x.n * 1000000 + x.d) \div (2 * x.d), 1000000)

\* to_store = [{"ticker": t, "momentum": round(m, 6)} for t, m in top5]
ToStore(list) ==
    [i \in 1..Len(list) |->
        [ticker |-> list[i].ticker, momentum |-> Round6(list[i].momentum)]]

\* load_results(): no cache file, or what an earlier session saved.
StoredCaches ==
    {<<>>, (NumCliDates :> <<[ticker |-> 2, momentum |-> Fin(1)]>>)}

InitCli ==
    /\ pc = "prompt"
    /\ NoClean
    /\ \E dev1, dev2 \in CliDeviations :
          rows = make_rows(NumCliDates, NumCliTickers, dev1, dev2)
    /\ dates = get_trading_dates_ordered(rows)
    /\ date_to_index = build_date_to_index(dates)
    /\ NoCall
    /\ results \in StoredCaches
    /\ printed = <<>>

NotCalled == [kind |-> "not called", list |-> <<>>]

Shown(msg, date, list, returned) ==
    [msg |-> msg, date |-> date, list |-> list, returned |-> returned]

\* One pass of the loop for a date typed at the prompt.
Query(date_input) ==
    /\ pc = "prompt"
    /\ Len(printed) < MaxQueries
    /\ UNCHANGED <<pc, cleanVars, tableVars>>
    /\ IF date_input \in DOMAIN results
       THEN /\ printed' = Append(printed,
                  Shown("from cache", date_input, results[date_input], NotCalled))
            /\ UNCHANGED <<results, rankVars>>
       ELSE LET t5 == compute_top5_momentum_for_date(rows, date_input, dates,
                                                     date_to_index, DefaultWindow)
            IN /\ target_date' = date_input
               /\ window' = DefaultWindow
               /\ top5' = t5
               /\ IF t5.kind = "None"
                  THEN /\ printed' = Append(printed, Shown("No data", date_input, <<>>, t5))
                       /\ UNCHANGED results
                  ELSE IF Len(t5.list) = 0
                  THEN /\ printed' = Append(printed,
                             Shown("Insufficient history", date_input, <<>>, t5))
                       /\ UNCHANGED results
                  ELSE /\ results' = (date_input :> ToStore(t5.list)) @@ results
                       /\ printed' = Append(printed,
                             Shown("computed and saved", date_input, ToStore(t5.list), t5))

\* "quit", "exit" or "q" at the prompt.
Quit ==
    /\ pc = "prompt"
    /\ pc' = "done"
    /\ UNCHANGED <<cleanVars, tableVars, rankVars, cliVars>>

NextCli ==
    \/ \E date_input \in QueryDates : Query(date_input)
    \/ Quit

SpecCli == InitCli /\ [][NextCli]_vars

(***************************************************************************)
(* Properties of the cleaning pass.                                        *)
(***************************************************************************)
\* What a line of the raw file is, read off its text: blank, fewer than three
\* fields, or first two fields that are "date" and "ticker" in any case.
HeaderLike(line) ==
    /\ Len(line) >= 2
    /\ line[1] \in {"date", "Date", " Date "}
    /\ line[2] \in {"ticker", "TICKER", " TICKER "}

IsDataLine(line) ==
    /\ line \notin {<<"">>, <<"  ">>}
    /\ Len(line) >= 3
    /\ ~HeaderLike(line)

DataIdx == {i \in 1..Len(raw) : IsDataLine(raw[i])}

\* A price is valid when it parses and is strictly positive.
ValidPrice(x) == x # ValueError /\ FloatLt(Fin(0), x)

\* The data lines of a key that carry a valid price, in read order.
ValidIdx(key) ==
    {i \in DataIdx : KeyOf(raw[i]) = key /\ ValidPrice(PriceOf(raw[i]))}

MaxOf(S) == CHOOSE x \in S : \A y \in S : y <= x

DataKeys == {KeyOf(raw[i]) : i \in DataIdx}

DuplicatedKeys == {key \in DataKeys : Cardinality(ValidIdx(key)) >= 2}

\* The rows of the written table under a key.
FileRows(key) == {i \in 1..Len(clean_file) : <<clean_file[i][1], clean_file[i][2]>> = key}

\* The counts the audit log reports (a line that is left out reports 0).
Reported(m, field) ==
    IF \E i \in 1..Len(log) : log[i].m = m
    THEN LET i == CHOOSE i \in 1..Len(log) : log[i].m = m
         IN IF field = "a" THEN log[i].a ELSE log[i].b
    ELSE 0

\* C1: after the cleaning pass the written table has at most one row per
\* (date, ticker) key and every price in it is strictly positive.
C1_UniquePositive ==
    pc = "cleaned" =>
        /\ \A i, j \in 1..Len(clean_file) :
              (clean_file[i][1] = clean_file[j][1] /\ clean_file[i][2] = clean_file[j][2])
                  => i = j
        /\ \A i \in 1..Len(clean_file) : FloatLt(Fin(0), ParseFloat(clean_file[i][3]))

\* C2: last write wins: a key with k >= 2 rows of valid price holds the price
\* of the last of them, and the log reports the number of such keys as the
\* pairs resolved with k-1 rows dropped for each.
C2_LastWriteWins ==
    pc = "cleaned" =>
        /\ \A key \in DuplicatedKeys :
              /\ Cardinality(FileRows(key)) = 1
              /\ \A i \in FileRows(key) :
                    ParseFloat(clean_file[i][3]) = PriceOf(raw[MaxOf(ValidIdx(key))])
        /\ Reported("Resolved", "a") = Cardinality(DuplicatedKeys)
        /\ Reported("Resolved", "b")
              = SumOf([key \in DuplicatedKeys |-> Cardinality(ValidIdx(key)) - 1],
                      DuplicatedKeys)

\* C8: malformed, blank and header lines never count as rows read and never
\* give a row of the table: the rows read are the data lines, and every key
\* kept or written is the key of a data line.
C8_SkippedLines ==
    /\ rows_read = Cardinality(DataIdx)
    /\ DOMAIN last_seen \subseteq DataKeys
    /\ \A i \in 1..Len(clean_file) : <<clean_file[i][1], clean_file[i][2]>> \in DataKeys

\* C8 happens: a header line with a numeric price field, a malformed or blank
\* line and one valid row were read, and one row is read and written.
C8_Witness ==
    /\ pc = "cleaned"
    /\ Len(raw) = 3
    /\ raw[1] = <<" Date ", " TICKER ", "1">>
    /\ raw[2] \in MalformedLines \cup BlankLines
    /\ IsDataLine(raw[3])
    /\ rows_read = 1
    /\ Len(clean_file) = 1

\* C10: the reported counts balance: rows read = rows written + rows removed
\* + duplicate rows dropped, and the removed rows never exceed the rows read.
C10_CountsBalance ==
    pc = "cleaned" =>
        /\ Reported("Read", "a")
              = Reported("Written", "a") + Reported("Removed", "a") + Reported("Resolved", "b")
        /\ Reported("Removed", "a") <= Reported("Read", "a")

(***************************************************************************)
(* Properties of the ranker.  The calendar, the prices and the reference   *)
(* date are read off the rows here, not taken from the ranker.             *)
(***************************************************************************)
InCalendar(d) == \E i \in 1..Len(rows) : rows[i][1] = d

FirstRow(d) == CHOOSE i \in 1..Len(rows) :
                  rows[i][1] = d /\ \A j \in 1..(i - 1) : rows[j][1] # d

\* The 0-based position of a date of the calendar.
CalendarIndex(d) == Cardinality({rows[j][1] : j \in 1..(FirstRow(d) - 1)})

CalendarDate(i) ==
    CHOOSE d \in {rows[j][1] : j \in 1..Len(rows)} : CalendarIndex(d) = i

RefDate == CalendarDate(CalendarIndex(target_date) - window)

\* The price of a ticker on a date (the keys of a fixture are unique).
PriceAt(d, t) ==
    IF \E i \in 1..Len(rows) : rows[i][1] = d /\ rows[i][2] = t
    THEN rows[CHOOSE i \in 1..Len(rows) : rows[i][1] = d /\ rows[i][2] = t][3]
    ELSE None

AllTickers == {rows[i][2] : i \in 1..Len(rows)}

Ranked == {top5.list[i].ticker : i \in 1..Len(top5.list)}

\* The ranker was called on a date with enough history.
RankedCall ==
    /\ pc = "ranked"
    /\ InCalendar(target_date)
    /\ CalendarIndex(target_date) >= window

\* C3: a date absent from the calendar gives None, and only such a date
\* does; a date of the calendar at an index below the window gives [].
C3_Sentinels ==
    pc = "ranked" =>
        /\ (top5.kind = "None") <=> ~InCalendar(target_date)
        /\ (InCalendar(target_date) /\ CalendarIndex(target_date) < window)
              => (top5.kind = "list" /\ top5.list = <<>>)

\* C3 happens: a date of the calendar, not the first, one short of the window.
C3_Witness ==
    /\ pc = "ranked"
    /\ InCalendar(target_date)
    /\ CalendarIndex(target_date) >= 1
    /\ CalendarIndex(target_date) = window - 1
    /\ top5.kind = "list"
    /\ top5.list = <<>>

\* A ticker counts for the ranking of the call.
HasBothPrices(t) ==
    /\ PriceAt(target_date, t) # None
    /\ PriceAt(RefDate, t) # None
    /\ ~FloatLeZero(PriceAt(RefDate, t))

MomentumOf(t) == Momentum(PriceAt(target_date, t), PriceAt(RefDate, t))

MinOf(a, b) == IF a < b THEN a ELSE b

\* C4: with enough history the result has min(5, n) entries for n qualifying
\* tickers, each with momentum price(target)/price(ref) - 1, no entry has a
\* smaller momentum than a later one, and no qualifying ticker left out has a
\* greater momentum than one that is in.
C4_TopFive ==
    RankedCall =>
        /\ top5.kind = "list"
        /\ Len(top5.list) = MinOf(TopN, Cardinality({t \in AllTickers : HasBothPrices(t)}))
        /\ \A i \in 1..Len(top5.list) :
              /\ HasBothPrices(top5.list[i].ticker)
              /\ top5.list[i].momentum = MomentumOf(top5.list[i].ticker)
        /\ \A i, j \in 1..Len(top5.list) :
              i < j => ~FloatLt(top5.list[i].momentum, top5.list[j].momentum)
        /\ \A t \in AllTickers \ Ranked : \A i \in 1..Len(top5.list) :
              HasBothPrices(t) => ~FloatLt(top5.list[i].momentum, MomentumOf(t))

Swap(rs, i, j) ==
    [k \in 1..Len(rs) |-> IF k = i THEN rs[j] ELSE IF k = j THEN rs[i] ELSE rs[k]]

\* The same rows in other orders: reversed, and with any two rows exchanged.
Reorderings == {Reverse(rows)} \cup {Swap(rows, i, j) : i, j \in 1..Len(rows)}

\* C5: entries of equal momentum are in ascending ticker order, and the same
\* rows in another order give the same result.
C5_TieBreakDeterminism ==
    pc = "ranked" =>
        /\ \A i, j \in 1..Len(top5.list) :
              (i < j /\ FloatEq(top5.list[i].momentum, top5.list[j].momentum))
                  => top5.list[i].ticker < top5.list[j].ticker
        /\ \A rs \in Reorderings :
              compute_top5_momentum_for_date(rs, target_date, dates, date_to_index, window)
                  = top5

\* A ticker the exclusion rule names: no price on the target date, no price
\* on the reference date, or a zero or negative price on the reference date.
Excluded(t) ==
    \/ PriceAt(target_date, t) = None
    \/ PriceAt(RefDate, t) = None
    \/ FloatLeZero(PriceAt(RefDate, t))

RowsWithout(t) == SelectSeq(rows, LAMBDA r : r[2] # t)

\* C6: an excluded ticker is never in the result, and the result is the one
\* the table without that ticker gives.
C6_Exclusion ==
    RankedCall =>
        /\ top5.kind = "list"
        /\ \A t \in AllTickers : Excluded(t) =>
              /\ t \notin Ranked
              /\ compute_top5_momentum_for_date(RowsWithout(t), target_date, dates,
                                                 date_to_index, window) = top5

\* C6 happens: a ticker with a valid price on the target date and a zero or
\* negative price on the reference date is left out of a full result.
C6_Witness ==
    /\ RankedCall
    /\ Len(top5.list) = TopN
    /\ \E t \in AllTickers :
          /\ PriceAt(target_date, t) = Fin(1)
          /\ PriceAt(RefDate, t) \in {Fin(0), Fin(-1)}
          /\ t \notin Ranked
          /\ \E i \in 1..Len(top5.list) : top5.list[i].ticker > t

(***************************************************************************)
(* Properties of the query loop.                                           *)
(***************************************************************************)
\* Query i called the ranker and got a ranking: a list for a date with
\* enough history.
ComputedRanking(i) ==
    /\ printed[i].returned.kind = "list"
    /\ InCalendar(printed[i].date)
    /\ CalendarIndex(printed[i].date) >= DefaultWindow

\* C7: once a query for a date has computed a ranking, every later query for
\* the date shows that ranking as stored, from the cache, without a call of
\* the ranker.
C7_Memoized ==
    \A i, j \in 1..Len(printed) :
        (i < j /\ printed[i].date = printed[j].date /\ ComputedRanking(i))
            => /\ printed[j].msg = "from cache"
               /\ printed[j].returned = NotCalled
               /\ printed[j].list = ToStore(printed[i].returned.list)

\* C9: "insufficient history" is reported only for a date whose calendar
\* index is below the window; a known date with enough history and no
\* qualifying ticker is not reported so.
C9_EmptyOutcomes ==
    \A i \in 1..Len(printed) :
        printed[i].msg = "Insufficient history"
            => (InCalendar(printed[i].date)
                  /\ CalendarIndex(printed[i].date) < DefaultWindow)

====
